---- MODULE Spec2Model ----
(***************************************************************************)
(* State-machine model of doom_v2.py: the key dispatch of the frame loop   *)
(* (movement, turning, shooting), the per-column ray march, the projection *)
(* and row loop of a column, and the minimap's direction glyph.            *)
(*                                                                         *)
(* Real numbers are kept in fixed point.  Player coordinates and ray       *)
(* distances are in 1/UNIT of a cell, ray sample points in 1/FINE of a     *)
(* cell, angles in whole degrees, cosines in thousandths, probabilities in *)
(* 1/UNIT.  With these scales every product the program forms (0.3 * cos,  *)
(* k * 0.02 * cos) is an exact integer and stays inside TLC's integers.    *)
(* The muzzle-flash and animation timers, the FPS counter, colours and     *)
(* shading belong to the display layer and are not part of the state; of a *)
(* row of a column the model keeps which branch drew it.                   *)
(***************************************************************************)
EXTENDS Integers, Sequences, FiniteSets, TLC

VARIABLES
    player_x, player_y,   \* player position, in 1/UNIT of a cell
    player_angle,         \* facing angle in degrees
    player_health, ammo, score,
    ENEMIES,              \* sequence of <<x, y, alive, type>>
    running,              \* the frame loop's flag
    key,                  \* the key handled by the latest frame ("" before the first)
    new_x, new_y,         \* candidate position computed by the latest translation
    drawn,                \* enemies (indices) a random number was drawn for in the latest frame
    ticks,                \* number of budgeted intents handled so far
    shots,                \* number of shots fired so far (frames that spent a round)
    grid,                 \* the tile grid in use: an index into Grids (1 is MAP)
    ray_angle,            \* angle of the ray being marched, in degrees
    depth, depth2,        \* maximum range of the march and of a second march
                          \* of the same ray, in 1/UNIT
    ray, ray2,            \* the loop variables of the two marches
    view_height,          \* rows of the 3D view (terminal height - 2)
    pc,                   \* position in the rendering of one column:
                          \* "cast", "rows" or "done"
    corrected_distance,   \* fisheye-corrected wall distance, in 1/UNIT
    ceiling, floor,       \* first and last row of the wall span, clamped
    enemy_hit, enemy_distance, enemy_type,  \* the sprite chosen for the column
                          \* (enemy_distance in 1/1000 of a cell)
    y,                    \* number of rows of the column drawn so far
    glyph                 \* what the latest row drawn shows ("" before the first)

gameVars == <<player_x, player_y, player_angle, player_health, ammo, score,
              ENEMIES, running, key, new_x, new_y, drawn, ticks, shots>>

rayVars == <<grid, ray_angle, depth, depth2, ray, ray2>>

colVars == <<view_height, pc, corrected_distance, ceiling, floor, enemy_hit,
             enemy_distance, enemy_type, y, glyph>>

renderVars == <<rayVars, colVars>>

-----------------------------------------------------------------------------
(* Bounds of the model *)

MaxTicks == 5

MaxTurns == 2

-----------------------------------------------------------------------------
(* Fixed-point arithmetic *)

UNIT == 10000

FINE == 100000

Abs(v) == IF v < 0 THEN -v ELSE v

\* Python's int(): truncation toward zero of a value given in 1/scale
Trunc(v, scale) == IF v >= 0 THEN v \div scale ELSE -((-v) \div scale)

\* cos(0..90 degrees) in thousandths
COS_TABLE ==
    << 1000, 1000, 999, 999, 998, 996, 995, 993, 990, 988, 985, 982, 978,
       974, 970, 966, 961, 956, 951, 946, 940, 934, 927, 921, 914, 906,
       899, 891, 883, 875, 866, 857, 848, 839, 829, 819, 809, 799, 788,
       777, 766, 755, 743, 731, 719, 707, 695, 682, 669, 656, 643, 629,
       616, 602, 588, 574, 559, 545, 530, 515, 500, 485, 469, 454, 438,
       423, 407, 391, 375, 358, 342, 326, 309, 292, 276, 259, 242, 225,
       208, 191, 174, 156, 139, 122, 105, 87, 70, 52, 35, 17, 0 >>

Cos(deg) ==
    LET a == deg % 360 IN
    IF a <= 90 THEN COS_TABLE[a + 1]
    ELSE IF a <= 180 THEN -COS_TABLE[180 - a + 1]
    ELSE IF a <= 270 THEN -COS_TABLE[a - 180 + 1]
    ELSE COS_TABLE[360 - a + 1]

Sin(deg) == Cos(deg - 90)

RECURSIVE SqrtIter(_, _)
SqrtIter(n, x) ==
    LET nx == (x + n \div x) \div 2 IN
    IF nx >= x THEN x ELSE SqrtIter(n, nx)

\* floor of the square root
ISqrt(n) == IF n = 0 THEN 0 ELSE SqrtIter(n, n)

-----------------------------------------------------------------------------
(* Program constants *)

MAP ==
    << <<"#","#","#","#","#","#","#","#","#","#","#","#","#","#","#","#","#","#","#","#","#","#","#","#","#","#","#","#","#","#","#","#","#","#","#","#","#","#","#","#">>,
       <<"#",".",".",".",".",".",".",".",".",".",".",".",".",".",".",".",".",".",".",".",".",".",".",".",".",".",".",".",".",".",".",".",".",".",".",".",".",".",".","#">>,
       <<"#",".",".",".","#","#","#","L","L","L","#",".",".",".",".",".",".",".",".",".",".",".",".",".",".",".",".",".",".",".",".",".",".",".",".",".",".",".",".","#">>,
       <<"#",".",".",".","#","C",".",".",".","#",".",".",".",".",".",".",".",".",".",".",".",".",".",".",".",".",".",".",".",".",".",".",".",".",".",".",".",".","P","#">>,
       <<"#",".",".",".","#",".",".",".",".","D",".",".",".",".",".",".",".",".",".",".",".",".",".",".",".",".",".",".",".",".",".",".",".",".",".","#","#","#","#","#">>,
       <<"#",".",".",".","#","#","#","#","#","#",".",".",".",".",".",".",".",".",".",".",".",".",".",".",".",".",".",".",".",".",".",".",".",".",".",".",".","#","#","#">>,
       <<"#",".",".",".",".","P",".",".",".","P",".",".",".",".",".",".",".",".",".",".",".",".",".",".",".",".",".",".",".",".",".",".",".",".",".",".",".",".","#","#">>,
       <<"#",".",".",".",".","#","#","#","#",".",".",".",".",".",".",".",".",".",".",".",".",".",".",".",".",".",".",".",".",".",".",".",".",".",".",".","#","#","#","#">>,
       <<"#",".",".",".",".","#",".",".","#",".",".",".",".",".",".",".",".",".",".",".",".",".",".",".",".",".",".",".",".",".",".",".",".",".",".",".",".",".","#","#">>,
       <<"#",".",".",".",".","#","C",".","#",".",".",".",".","#","#","#",".",".",".",".",".",".",".",".",".",".",".",".",".",".",".",".",".",".",".",".",".",".","#","#">>,
       <<"#",".",".",".",".","#","#","#","#",".",".",".",".","#","C","#",".",".",".",".",".",".",".",".",".",".",".",".",".",".",".",".",".",".",".",".",".",".","#","#">>,
       <<"#",".",".",".",".",".",".",".",".",".",".",".",".","#","#","#",".",".",".",".",".",".",".",".",".",".",".",".",".",".",".",".",".",".",".",".",".","#","#","#">>,
       <<"#",".",".",".","P",".",".",".",".",".",".",".",".",".",".",".",".",".",".",".",".",".",".",".",".",".",".",".",".",".",".",".",".",".",".",".",".","P","#","#">>,
       <<"#",".",".",".","#",".",".",".","#",".",".",".","#",".",".",".","#",".",".",".",".",".",".",".",".",".",".",".",".",".",".",".",".",".",".",".",".",".","#","#">>,
       <<"#",".",".",".",".",".",".",".",".",".",".",".",".",".",".",".",".",".",".",".",".",".",".",".",".",".",".",".",".",".",".",".",".",".",".",".",".",".",".","#">>,
       <<"#","#","#","#","#","#","#","#","#","#","#","#","#","#","#","#","#","#","#","#","#","#","#","#","#","#","#","#","#","#","#","#","#","#","#","#","#","#","#","#">> >>


\* the 3x3 grid whose only open cell is the centre
GRID_3X3 ==
    << <<"#","#","#">>,
       <<"#",".","#">>,
       <<"#","#","#">> >>

\* a grid with every tile kind and with open cells on its border
GRID_OPEN ==
    << <<"#","#",".","#","#","#">>,
       <<"#",".",".","C",".","#">>,
       <<".",".",".","D",".","L">>,
       <<"#",".","P",".",".","#">>,
       <<"#","#","#","#","#","#">> >>

\* a grid of MAP's size with no tile but the border walls
MAP_BARE ==
    [r \in 1..Len(MAP) |->
        [c \in 1..Len(MAP[1]) |->
            IF r \in {1, Len(MAP)} \/ c \in {1, Len(MAP[1])} THEN "#" ELSE "."]]

Grids == <<MAP, GRID_3X3, GRID_OPEN, MAP_BARE>>

\* the grids rays are marched on, as indices into Grids
RayGrids == {1, 2, 3}

\* the grids the combat is run on, as indices into Grids
CombatGrids == {1, 4}

ENEMIES_INIT ==
    << <<5, 3, TRUE, 0>>,
       <<10, 5, TRUE, 0>>,
       <<8, 8, TRUE, 1>>,
       <<15, 7, TRUE, 0>>,
       <<12, 10, TRUE, 2>>,
       <<18, 8, TRUE, 1>>,
       <<20, 12, TRUE, 0>> >>

FOV == 70

DEPTH == 16

\* a move step of a quarter of a cell
move_step_Quarter == UNIT \div 4

\* 0.3 of a cell, in 1/UNIT
move_step == 3000

\* 0.02 of a cell, in 1/UNIT
step_size == 200

turn_step == 3

\* the values random.random() is drawn from, in 1/UNIT: [0, 1)
Draws == {0, 2500, 5000, 7500, 9999}

-----------------------------------------------------------------------------
(* Helpers *)

\* distance(x1, y1, x2, y2), arguments in 1/UNIT, result in thousandths of a cell
distance(x1, y1, x2, y2) ==
    LET dx == Abs(x2 - x1) \div 10
        dy == Abs(y2 - y1) \div 10
    IN  ISqrt(dx * dx + dy * dy)

\* abs((degrees(atan2(dy, dx)) - angle + 180) % 360 - 180) < half, for half < 90:
\* the direction (dx, dy) lies strictly inside the cone of half-angle `half`
\* around `angle`; atan2(0, 0) is 0
WithinAngle(dx, dy, angle, half) ==
    IF dx = 0 /\ dy = 0
    THEN Abs(((0 - angle + 180) % 360) - 180) < half
    ELSE /\ Cos(angle - half) * dy - Sin(angle - half) * dx > 0
         /\ Cos(angle + half) * dy - Sin(angle + half) * dx < 0

\* cell (cx, cy) lies inside grid g
InGrid(g, cx, cy) ==
    /\ 0 <= cy /\ cy < Len(g)
    /\ 0 <= cx /\ cx < Len(g[1])

\* the movement test of the w/s/a/d branches on a cell of grid g
CellOpen(g, cx, cy) ==
    /\ InGrid(g, cx, cy)
    /\ g[cy + 1][cx + 1] \notin {"#", "P"}

\* the movement test on a candidate position
CanEnter(nx, ny) == CellOpen(Grids[grid], Trunc(nx, UNIT), Trunc(ny, UNIT))

\* cos(angle) * move_step
StepX(angle) == (Cos(angle) * move_step) \div 1000

StepY(angle) == (Sin(angle) * move_step) \div 1000

\* the tile under the player
PlayerTile == Grids[grid][Trunc(player_y, UNIT) + 1][Trunc(player_x, UNIT) + 1]

-----------------------------------------------------------------------------
(* Combat *)

\* the number of points tested on the segment from the player to an enemy
Samples == 16

\* a Wall cell of the grid lies on the straight segment from the player to
\* the enemy
WallBetween(enemy) ==
    \E k \in 1..(Samples - 1) :
        LET px == player_x + (k * (enemy[1] * UNIT - player_x)) \div Samples
            py == player_y + (k * (enemy[2] * UNIT - player_y)) \div Samples
        IN  /\ InGrid(Grids[grid], Trunc(px, UNIT), Trunc(py, UNIT))
            /\ Grids[grid][Trunc(py, UNIT) + 1][Trunc(px, UNIT) + 1] = "#"

\* ValidTarget with a line-of-sight test on the grid added
ValidTarget_LineOfSight(enemy) ==
    /\ WithinAngle(enemy[1] * UNIT - player_x, enemy[2] * UNIT - player_y,
                   player_angle, FOV \div 2)
    /\ distance(player_x, player_y, enemy[1] * UNIT, enemy[2] * UNIT) < DEPTH * 1000
    /\ ~WallBetween(enemy)

\* abs(angle_diff) < FOV / 2 and dist < DEPTH
ValidTarget(enemy) ==
    /\ WithinAngle(enemy[1] * UNIT - player_x, enemy[2] * UNIT - player_y,
                   player_angle, FOV \div 2)
    /\ distance(player_x, player_y, enemy[1] * UNIT, enemy[2] * UNIT) < DEPTH * 1000

\* hit_chance, in 1/UNIT
HitChance(enemy) ==
    LET dist == distance(player_x, player_y, enemy[1] * UNIT, enemy[2] * UNIT)
        base == UNIT - (dist * 8000) \div (DEPTH * 1000)
    IN  (base * (IF enemy[4] = 0 THEN 10 ELSE IF enemy[4] = 1 THEN 7 ELSE 5)) \div 10

\* ScanEnemies without the break after a kill: the scan goes on to the next enemy
RECURSIVE ScanEnemies_NoBreak(_, _, _, _)
ScanEnemies_NoBreak(i, es, sc, dr) ==
    IF i > Len(es)
    THEN {[ENEMIES |-> es, score |-> sc, drawn |-> dr]}
    ELSE IF es[i][3] /\ ValidTarget(es[i])
         THEN UNION { IF u < HitChance(es[i])
                      THEN ScanEnemies_NoBreak(i + 1, [es EXCEPT ![i][3] = FALSE],
                                               sc + 100 * (es[i][4] + 1), Append(dr, i))
                      ELSE ScanEnemies_NoBreak(i + 1, es, sc, Append(dr, i))
                    : u \in Draws }
         ELSE ScanEnemies_NoBreak(i + 1, es, sc, dr)

\* ScanEnemies scoring a flat 100 for every class
RECURSIVE ScanEnemies_FlatScore(_, _, _, _)
ScanEnemies_FlatScore(i, es, sc, dr) ==
    IF i > Len(es)
    THEN {[ENEMIES |-> es, score |-> sc, drawn |-> dr]}
    ELSE IF es[i][3] /\ ValidTarget(es[i])
         THEN UNION { IF u < HitChance(es[i])
                      THEN {[ENEMIES |-> [es EXCEPT ![i][3] = FALSE],
                             score |-> sc + 100,
                             drawn |-> Append(dr, i)]}
                      ELSE ScanEnemies_FlatScore(i + 1, es, sc, Append(dr, i))
                    : u \in Draws }
         ELSE ScanEnemies_FlatScore(i + 1, es, sc, dr)

\* ScanEnemies deleting the killed enemy from the list instead of clearing its flag
RECURSIVE ScanEnemies_Remove(_, _, _, _)
ScanEnemies_Remove(i, es, sc, dr) ==
    IF i > Len(es)
    THEN {[ENEMIES |-> es, score |-> sc, drawn |-> dr]}
    ELSE IF es[i][3] /\ ValidTarget(es[i])
         THEN UNION { IF u < HitChance(es[i])
                      THEN {[ENEMIES |-> SubSeq(es, 1, i - 1) \o SubSeq(es, i + 1, Len(es)),
                             score |-> sc + 100 * (es[i][4] + 1),
                             drawn |-> Append(dr, i)]}
                      ELSE ScanEnemies_Remove(i + 1, es, sc, Append(dr, i))
                    : u \in Draws }
         ELSE ScanEnemies_Remove(i + 1, es, sc, dr)

\* the loop over ENEMIES of the shoot branch from index i on: the set of
\* its possible outcomes, one per sequence of random draws
RECURSIVE ScanEnemies(_, _, _, _)
ScanEnemies(i, es, sc, dr) ==
    IF i > Len(es)
    THEN {[ENEMIES |-> es, score |-> sc, drawn |-> dr]}
    ELSE IF es[i][3] /\ ValidTarget(es[i])
         THEN UNION { IF u < HitChance(es[i])
                      THEN {[ENEMIES |-> [es EXCEPT ![i][3] = FALSE],
                             score |-> sc + 100 * (es[i][4] + 1),
                             drawn |-> Append(dr, i)]}
                      ELSE ScanEnemies(i + 1, es, sc, Append(dr, i))
                    : u \in Draws }
         ELSE ScanEnemies(i + 1, es, sc, dr)

-----------------------------------------------------------------------------
(* The ray march of one screen column *)

\* the loop variables before the first iteration; map_x and map_y are first
\* assigned inside the loop and start here at the origin's cell
RayStart(px, py) ==
    [ distance_to_wall |-> 0,
      ray_x |-> px * 10, ray_y |-> py * 10,
      map_x |-> Trunc(px, UNIT), map_y |-> Trunc(py, UNIT),
      hit_wall |-> FALSE, hit_lower_wall |-> FALSE,
      hit_pillar |-> FALSE, hit_corner |-> FALSE,
      boundary |-> FALSE, wall_orientation |-> 0 ]

\* the while condition tested with <= : one more iteration at distance = d
RayCond_Inclusive(st, d) == ~st.hit_wall /\ st.distance_to_wall <= d

\* the while condition
RayCond(st, d) == ~st.hit_wall /\ st.distance_to_wall < d

\* the face test with the two orientations exchanged
Orientation_Swapped(st, tx, ty) ==
    IF tx < 2000 THEN 1
    ELSE IF tx > 98000 THEN 1
    ELSE IF ty < 2000 THEN 0
    ELSE IF ty > 98000 THEN 0
    ELSE st.wall_orientation

\* wall_orientation after the face test on the fractional position (tx, ty),
\* in 1/FINE
Orientation(st, tx, ty) ==
    IF tx < 2000 THEN 0
    ELSE IF tx > 98000 THEN 0
    ELSE IF ty < 2000 THEN 1
    ELSE IF ty > 98000 THEN 1
    ELSE st.wall_orientation

OnEdge(tx, ty) == tx < 2000 \/ tx > 98000 \/ ty < 2000 \/ ty > 98000

\* number of the four neighbours of (mx, my) that are '#'
AdjacentCount(g, mx, my) ==
    Cardinality({ d \in {<<0, 1>>, <<1, 0>>, <<0, -1>>, <<-1, 0>>} :
                    /\ InGrid(g, mx + d[1], my + d[2])
                    /\ g[my + d[2] + 1][mx + d[1] + 1] = "#" })

\* the first half of an iteration: advance the distance and sample the cell
Advance(px, py, angle, st) ==
    LET dist == st.distance_to_wall + step_size
        rx == px * 10 + (Cos(angle) * dist) \div 100
        ry == py * 10 + (Sin(angle) * dist) \div 100
    IN  [st EXCEPT !.distance_to_wall = dist, !.ray_x = rx, !.ray_y = ry,
                   !.map_x = Trunc(rx, FINE), !.map_y = Trunc(ry, FINE)]

\* Classify with the clamp of the distance applied to every hit
Classify_ClampAll(g, d, st) ==
    LET mx == st.map_x
        my == st.map_y
        tx == st.ray_x - mx * FINE
        ty == st.ray_y - my * FINE
    IN  IF mx < 0 \/ my < 0 \/ mx >= Len(g[1]) \/ my >= Len(g)
        THEN [st EXCEPT !.hit_wall = TRUE, !.distance_to_wall = d]
        ELSE IF g[my + 1][mx + 1] = "#"
        THEN [st EXCEPT !.hit_wall = TRUE, !.distance_to_wall = d,
                        !.wall_orientation = Orientation(st, tx, ty),
                        !.boundary = st.boundary \/ OnEdge(tx, ty),
                        !.hit_corner = st.hit_corner \/ AdjacentCount(g, mx, my) >= 3]
        ELSE IF g[my + 1][mx + 1] = "L"
        THEN [st EXCEPT !.hit_lower_wall = TRUE, !.hit_wall = TRUE,
                        !.distance_to_wall = d,
                        !.wall_orientation = Orientation(st, tx, ty),
                        !.boundary = st.boundary \/ OnEdge(tx, ty)]
        ELSE IF g[my + 1][mx + 1] = "P"
        THEN [st EXCEPT !.hit_pillar = TRUE, !.hit_wall = TRUE, !.boundary = TRUE,
                        !.distance_to_wall = d]
        ELSE IF g[my + 1][mx + 1] = "C"
        THEN [st EXCEPT !.hit_corner = TRUE, !.hit_wall = TRUE, !.boundary = TRUE,
                        !.distance_to_wall = d]
        ELSE st

\* Classify without the pillar branch
Classify_NoPillar(g, d, st) ==
    LET mx == st.map_x
        my == st.map_y
        tx == st.ray_x - mx * FINE
        ty == st.ray_y - my * FINE
    IN  IF mx < 0 \/ my < 0 \/ mx >= Len(g[1]) \/ my >= Len(g)
        THEN [st EXCEPT !.hit_wall = TRUE, !.distance_to_wall = d]
        ELSE IF g[my + 1][mx + 1] = "#"
        THEN [st EXCEPT !.hit_wall = TRUE,
                        !.wall_orientation = Orientation(st, tx, ty),
                        !.boundary = st.boundary \/ OnEdge(tx, ty),
                        !.hit_corner = st.hit_corner \/ AdjacentCount(g, mx, my) >= 3]
        ELSE IF g[my + 1][mx + 1] = "L"
        THEN [st EXCEPT !.hit_lower_wall = TRUE, !.hit_wall = TRUE,
                        !.wall_orientation = Orientation(st, tx, ty),
                        !.boundary = st.boundary \/ OnEdge(tx, ty)]
        ELSE IF g[my + 1][mx + 1] = "C"
        THEN [st EXCEPT !.hit_corner = TRUE, !.hit_wall = TRUE, !.boundary = TRUE]
        ELSE st

\* the second half of an iteration: the if-chain on the sampled cell
\* (st.map_x, st.map_y) of grid g, with maximum range d
Classify(g, d, st) ==
    LET mx == st.map_x
        my == st.map_y
        tx == st.ray_x - mx * FINE
        ty == st.ray_y - my * FINE
    IN  IF mx < 0 \/ my < 0 \/ mx >= Len(g[1]) \/ my >= Len(g)
        THEN [st EXCEPT !.hit_wall = TRUE, !.distance_to_wall = d]
        ELSE IF g[my + 1][mx + 1] = "#"
        THEN [st EXCEPT !.hit_wall = TRUE,
                        !.wall_orientation = Orientation(st, tx, ty),
                        !.boundary = st.boundary \/ OnEdge(tx, ty),
                        !.hit_corner = st.hit_corner \/ AdjacentCount(g, mx, my) >= 3]
        ELSE IF g[my + 1][mx + 1] = "L"
        THEN [st EXCEPT !.hit_lower_wall = TRUE, !.hit_wall = TRUE,
                        !.wall_orientation = Orientation(st, tx, ty),
                        !.boundary = st.boundary \/ OnEdge(tx, ty)]
        ELSE IF g[my + 1][mx + 1] = "P"
        THEN [st EXCEPT !.hit_pillar = TRUE, !.hit_wall = TRUE, !.boundary = TRUE]
        ELSE IF g[my + 1][mx + 1] = "C"
        THEN [st EXCEPT !.hit_corner = TRUE, !.hit_wall = TRUE, !.boundary = TRUE]
        ELSE st

\* one iteration of the while loop on grid g, from origin (px, py) along
\* angle, with maximum range d
RayBody(g, px, py, angle, d, st) == Classify(g, d, Advance(px, py, angle, st))

\* float('inf'), in thousandths of a cell: above every distance in a grid
inf == 1000 * 1000 * 1000

\* the locals of the column rendering before the ray is cast
ColumnStart ==
    /\ pc = "cast"
    /\ corrected_distance = 0
    /\ ceiling = 0 /\ floor = 0
    /\ enemy_hit = FALSE /\ enemy_distance = inf /\ enemy_type = 0
    /\ y = 0
    /\ glyph = ""

\* the ranges the two marches are run with, in 1/UNIT
Depths == {UNIT, 25000, 25100, 5 * UNIT, DEPTH * UNIT}

\* the ray origins tried, per coordinate, in 1/UNIT
Coords == {10000, 15000, 20000, 23000}

Angles == {-35, 0, 30, 45, 90, 135, 180, 225, 270, 315}

\* a ray from a position the player may stand on, marched twice: with range
\* depth and with a larger range depth2
InitRay ==
    /\ grid \in RayGrids
    /\ player_x \in Coords /\ player_y \in Coords
    /\ InGrid(Grids[grid], Trunc(player_x, UNIT), Trunc(player_y, UNIT))
    /\ Grids[grid][Trunc(player_y, UNIT) + 1][Trunc(player_x, UNIT) + 1] \in {".", "D"}
    /\ ray_angle \in Angles
    /\ depth \in Depths /\ depth2 \in Depths /\ depth < depth2
    /\ ray = RayStart(player_x, player_y)
    /\ ray2 = RayStart(player_x, player_y)
    /\ player_angle = 0
    /\ player_health = 100
    /\ ammo = 50
    /\ score = 0
    /\ ENEMIES = ENEMIES_INIT
    /\ running = TRUE
    /\ key = ""
    /\ new_x = player_x /\ new_y = player_y
    /\ drawn = <<>>
    /\ ticks = 0
    /\ shots = 0
    /\ view_height = 22
    /\ ColumnStart

\* one iteration of each of the two marches that has not ended
RayStep ==
    /\ RayCond(ray, depth) \/ RayCond(ray2, depth2)
    /\ ray' = IF RayCond(ray, depth)
              THEN RayBody(Grids[grid], player_x, player_y, ray_angle, depth, ray)
              ELSE ray
    /\ ray2' = IF RayCond(ray2, depth2)
               THEN RayBody(Grids[grid], player_x, player_y, ray_angle, depth2, ray2)
               ELSE ray2
    /\ UNCHANGED <<grid, ray_angle, depth, depth2>>
    /\ UNCHANGED colVars
    /\ UNCHANGED gameVars

-----------------------------------------------------------------------------
(* The projection and drawing of one screen column *)

Max(a, b) == IF a > b THEN a ELSE b

Min(a, b) == IF a < b THEN a ELSE b

\* Ceiling with the factor 0.5 of a lower wall written as 2.0
Ceiling_LowerDouble(vh, cd, lower) ==
    Max(0, IF lower THEN Trunc(vh * cd - 4 * vh * UNIT, 2 * cd)
                    ELSE Trunc(vh * cd - 2 * vh * UNIT, 2 * cd))

\* ceiling: int(vh / 2.0 - (vh / cd) * 0.5) for a lower wall and
\* int(vh / 2.0 - vh / cd) otherwise, then max(0, ceiling); cd in 1/UNIT
Ceiling(vh, cd, lower) ==
    Max(0, IF lower THEN Trunc(vh * cd - vh * UNIT, 2 * cd)
                    ELSE Trunc(vh * cd - 2 * vh * UNIT, 2 * cd))

\* floor: int(vh / 2.0 + (vh / cd) * 0.5) for a lower wall and
\* int(vh / 2.0 + vh / cd) otherwise, then min(vh - 1, floor); cd in 1/UNIT
Floor(vh, cd, lower) ==
    Min(vh - 1, IF lower THEN Trunc(vh * cd + vh * UNIT, 2 * cd)
                         ELSE Trunc(vh * cd + 2 * vh * UNIT, 2 * cd))

\* the test of the sprite loop on one enemy: alive, within 3 degrees of the
\* ray, nearer than the wall and nearer than the enemy chosen so far
\* (dist in thousandths of a cell, cd in 1/UNIT)
Selects(enemy, angle, cd, best) ==
    LET dist == distance(player_x, player_y, enemy[1] * UNIT, enemy[2] * UNIT)
    IN  /\ enemy[3]
        /\ WithinAngle(enemy[1] * UNIT - player_x, enemy[2] * UNIT - player_y, angle, 3)
        /\ dist * 10 < cd
        /\ dist < best

\* the sprite loop over ENEMIES from index i on
RECURSIVE SelectEnemy(_, _, _, _)
SelectEnemy(i, angle, cd, sel) ==
    IF i > Len(ENEMIES)
    THEN sel
    ELSE IF Selects(ENEMIES[i], angle, cd, sel.enemy_distance)
         THEN SelectEnemy(i + 1, angle, cd,
                  [enemy_hit |-> TRUE,
                   enemy_distance |-> distance(player_x, player_y,
                                               ENEMIES[i][1] * UNIT, ENEMIES[i][2] * UNIT),
                   enemy_type |-> ENEMIES[i][4]])
         ELSE SelectEnemy(i + 1, angle, cd, sel)

\* enemy_ceiling: int(vh / 2.0 - (vh / enemy_distance) / 2), dist in
\* thousandths of a cell
EnemyCeiling(vh, dist) == Trunc(vh * dist - vh * 1000, 2 * dist)

\* enemy_floor: int(vh / 2.0 + (vh / enemy_distance) / 2)
EnemyFloor(vh, dist) == Trunc(vh * dist + vh * 1000, 2 * dist)

\* the texture family of the wall branch
WallGlyph(st) ==
    IF st.hit_pillar THEN "pillar"
    ELSE IF st.hit_corner THEN "corner"
    ELSE IF st.hit_lower_wall THEN "lower"
    ELSE IF st.wall_orientation = 0 THEN "wall_ns"
    ELSE "wall_ew"

WallGlyphs == {"pillar", "corner", "lower", "wall_ns", "wall_ew"}

\* what the body of the row loop draws in row yy: "none" when no branch
\* that draws is taken
RowGlyph(yy) ==
    IF yy < ceiling
    THEN "sky"
    ELSE IF yy >= ceiling /\ yy <= floor
         THEN IF enemy_hit
              THEN IF /\ yy >= EnemyCeiling(view_height, enemy_distance)
                      /\ yy <= EnemyFloor(view_height, enemy_distance)
                   THEN "enemy"
                   ELSE IF ray.hit_wall THEN WallGlyph(ray) ELSE "none"
              ELSE WallGlyph(ray)
         ELSE "floor"

\* the view heights tried: terminals of 12, 25 and 42 lines
ViewHeights == {10, 23, 40}

\* the columns tried, as the angle between the ray and the facing direction:
\* columns of a terminal 70 wide, where every ray angle is a whole degree
Offsets == {-35, -20, 0, 2, 20}

\* the poses <<player_x, player_y, player_angle>> the column is rendered from
Poses ==
    { <<20000, 20000, 0>>,      \* the start
      <<20000, 14000, 270>>,    \* next to the north wall, facing it
      <<80000, 14000, 90>>,     \* next to the lower wall, facing it
      <<170000, 71000, 180>>,   \* an enemy near, the wall behind it far
      <<161000, 41000, 63>>,    \* two enemies in one direction
      <<299000, 80000, 180>> }  \* an enemy in the open, no wall within DEPTH

\* the enemy lists tried: all alive, and the sixth enemy killed
EnemyLists == {ENEMIES_INIT, [ENEMIES_INIT EXCEPT ![6][3] = FALSE]}

\* one column of a frame, rendered from a pose the player can walk and turn to
\* on MAP
InitColumn ==
    /\ grid = 1
    /\ \E p \in Poses : player_x = p[1] /\ player_y = p[2] /\ player_angle = p[3]
    /\ (player_x - 2 * UNIT) % move_step = 0
    /\ (player_y - 2 * UNIT) % move_step = 0
    /\ player_angle % turn_step = 0
    /\ CanEnter(player_x, player_y)
    /\ \E o \in Offsets : ray_angle = player_angle + o
    /\ view_height \in ViewHeights
    /\ ENEMIES \in EnemyLists
    /\ depth = DEPTH * UNIT /\ depth2 = DEPTH * UNIT
    /\ ray = RayStart(player_x, player_y)
    /\ ray2 = RayStart(player_x, player_y)
    /\ ColumnStart
    /\ player_health = 100
    /\ ammo = 50
    /\ score = 0
    /\ running = TRUE
    /\ key = ""
    /\ new_x = player_x /\ new_y = player_y
    /\ drawn = <<>>
    /\ ticks = 0
    /\ shots = 0

\* the projection of the wall and the choice of the sprite, once the march
\* has ended
Project ==
    /\ pc = "cast"
    /\ ~RayCond(ray, depth)
    /\ LET cd  == (ray.distance_to_wall * Cos(ray_angle - player_angle)) \div 1000
           sel == SelectEnemy(1, ray_angle, cd,
                      [enemy_hit |-> FALSE, enemy_distance |-> inf, enemy_type |-> 0])
       IN  /\ corrected_distance' = cd
           /\ ceiling' = Ceiling(view_height, cd, ray.hit_lower_wall)
           /\ floor' = Floor(view_height, cd, ray.hit_lower_wall)
           /\ enemy_hit' = sel.enemy_hit
           /\ enemy_distance' = sel.enemy_distance
           /\ enemy_type' = sel.enemy_type
    /\ pc' = "rows"
    /\ UNCHANGED <<view_height, y, glyph>>
    /\ UNCHANGED rayVars
    /\ UNCHANGED gameVars

\* one iteration of the row loop
DrawRow ==
    /\ pc = "rows"
    /\ y < Min(view_height, 1000)
    /\ glyph' = RowGlyph(y)
    /\ y' = y + 1
    /\ pc' = IF y + 1 < Min(view_height, 1000) THEN "rows" ELSE "done"
    /\ UNCHANGED <<view_height, corrected_distance, ceiling, floor, enemy_hit,
                   enemy_distance, enemy_type>>
    /\ UNCHANGED rayVars
    /\ UNCHANGED gameVars

-----------------------------------------------------------------------------
(* The minimap *)

\* dir_char, by the direction its arrow points on the screen
DirChar(angle) ==
    IF 45 <= angle /\ angle < 135 THEN "right"
    ELSE IF 135 <= angle /\ angle < 225 THEN "down"
    ELSE IF 225 <= angle /\ angle < 315 THEN "left"
    ELSE "up"

-----------------------------------------------------------------------------
(* The frame loop's key dispatch *)

Init ==
    /\ player_x = 2 * UNIT /\ player_y = 2 * UNIT
    /\ player_angle = 0
    /\ player_health = 100
    /\ ammo = 50
    /\ score = 0
    /\ ENEMIES = ENEMIES_INIT
    /\ running = TRUE
    /\ key = ""
    /\ new_x = 2 * UNIT /\ new_y = 2 * UNIT
    /\ drawn = <<>>
    /\ ticks = 0
    /\ shots = 0
    /\ view_height = 22
    /\ ColumnStart
    /\ grid = 1
    /\ ray_angle = 0
    /\ depth = DEPTH * UNIT /\ depth2 = DEPTH * UNIT
    /\ ray = RayStart(player_x, player_y)
    /\ ray2 = RayStart(player_x, player_y)

\* Translate testing and committing each coordinate on its own
Translate_Partial(k, nx, ny) ==
    /\ running
    /\ key' = k
    /\ new_x' = nx /\ new_y' = ny
    /\ player_x' = IF CanEnter(nx, player_y) THEN nx ELSE player_x
    /\ player_y' = IF CanEnter(player_x, ny) THEN ny ELSE player_y
    /\ drawn' = <<>>
    /\ UNCHANGED <<player_angle, player_health, ammo, score, ENEMIES, running,
                   shots>>
    /\ UNCHANGED renderVars

\* the common part of the four translation branches
Translate(k, nx, ny) ==
    /\ running
    /\ key' = k
    /\ new_x' = nx /\ new_y' = ny
    /\ IF CanEnter(nx, ny)
       THEN player_x' = nx /\ player_y' = ny
       ELSE UNCHANGED <<player_x, player_y>>
    /\ drawn' = <<>>
    /\ UNCHANGED <<player_angle, player_health, ammo, score, ENEMIES, running,
                   shots>>
    /\ UNCHANGED renderVars

KeyW == Translate("w", player_x + StepX(player_angle), player_y + StepY(player_angle))

KeyS == Translate("s", player_x - StepX(player_angle), player_y - StepY(player_angle))

KeyA == Translate("a", player_x + StepX(player_angle - 90), player_y + StepY(player_angle - 90))

KeyD == Translate("d", player_x + StepX(player_angle + 90), player_y + StepY(player_angle + 90))

Turn(k, angle) ==
    /\ running
    /\ key' = k
    /\ player_angle' = angle % 360
    /\ drawn' = <<>>
    /\ UNCHANGED <<player_x, player_y, player_health, ammo, score, ENEMIES,
                   running, new_x, new_y, shots>>
    /\ UNCHANGED renderVars

KeyQ == Turn("q", player_angle - turn_step)

KeyE == Turn("e", player_angle + turn_step)

\* KeySpace without the ammo > 0 guard
KeySpace_NoAmmoCheck ==
    /\ running
    /\ key' = " "
    /\ ammo' = ammo - 1
    /\ shots' = shots + 1
    /\ \E o \in ScanEnemies(1, ENEMIES, score, <<>>) :
           /\ ENEMIES' = o.ENEMIES
           /\ score' = o.score
           /\ drawn' = o.drawn
    /\ UNCHANGED <<player_x, player_y, player_angle, player_health, running,
                   new_x, new_y>>
    /\ UNCHANGED renderVars

KeySpace ==
    /\ running
    /\ key' = " "
    /\ IF ammo > 0
       THEN /\ ammo' = ammo - 1
            /\ shots' = shots + 1
            /\ \E o \in ScanEnemies(1, ENEMIES, score, <<>>) :
                   /\ ENEMIES' = o.ENEMIES
                   /\ score' = o.score
                   /\ drawn' = o.drawn
       ELSE /\ drawn' = <<>>
            /\ UNCHANGED <<ammo, score, ENEMIES, shots>>
    /\ UNCHANGED <<player_x, player_y, player_angle, player_health, running,
                   new_x, new_y>>
    /\ UNCHANGED renderVars

KeyX ==
    /\ running
    /\ key' = "x"
    /\ running' = FALSE
    /\ drawn' = <<>>
    /\ UNCHANGED <<player_x, player_y, player_angle, player_health, ammo, score,
                   ENEMIES, new_x, new_y, shots>>
    /\ UNCHANGED renderVars

\* the bound on the number of frames that handle a key
Budget(max) == ticks < max /\ ticks' = ticks + 1

\* one frame with a key pressed, at most MaxTicks frames
Next ==
    \/ Budget(MaxTicks) /\ KeyW
    \/ Budget(MaxTicks) /\ KeyS
    \/ Budget(MaxTicks) /\ KeyA
    \/ Budget(MaxTicks) /\ KeyD
    \/ Budget(MaxTicks) /\ KeyQ
    \/ Budget(MaxTicks) /\ KeyE
    \/ Budget(MaxTicks) /\ KeySpace
    \/ Budget(MaxTicks) /\ KeyX

vars == <<gameVars, rayVars, colVars>>

Spec == Init /\ [][Next]_vars

\* the player only walks, without turning: any number of w/s/a/d frames
NextWalk ==
    \/ KeyW /\ UNCHANGED ticks
    \/ KeyS /\ UNCHANGED ticks
    \/ KeyA /\ UNCHANGED ticks
    \/ KeyD /\ UNCHANGED ticks

SpecWalk == Init /\ [][NextWalk]_vars

\* the player stands at the start, turns at most MaxTurns times and shoots
\* any number of times
NextCombat ==
    \/ KeySpace /\ UNCHANGED ticks
    \/ Budget(MaxTurns) /\ KeyQ
    \/ Budget(MaxTurns) /\ KeyE

SpecCombat == Init /\ [][NextCombat]_vars

\* the start of the game on one of the grids of CombatGrids
InitGrids ==
    /\ grid \in CombatGrids
    /\ player_x = 2 * UNIT /\ player_y = 2 * UNIT
    /\ CanEnter(player_x, player_y)
    /\ player_angle = 0
    /\ player_health = 100
    /\ ammo = 50
    /\ score = 0
    /\ ENEMIES = ENEMIES_INIT
    /\ running = TRUE
    /\ key = ""
    /\ new_x = 2 * UNIT /\ new_y = 2 * UNIT
    /\ drawn = <<>>
    /\ ticks = 0
    /\ shots = 0
    /\ view_height = 22
    /\ ColumnStart
    /\ ray_angle = 0
    /\ depth = DEPTH * UNIT /\ depth2 = DEPTH * UNIT
    /\ ray = RayStart(player_x, player_y)
    /\ ray2 = RayStart(player_x, player_y)

\* turning and shooting from the start, on either grid
SpecGrids == InitGrids /\ [][NextCombat]_vars

\* the march of one ray
NextRay == RayStep

SpecRay == InitRay /\ [][NextRay]_vars

\* the rendering of one column: the march, the projection, the rows
NextColumn ==
    \/ pc = "cast" /\ RayStep
    \/ Project
    \/ DrawRow

SpecColumn == InitColumn /\ [][NextColumn]_vars

-----------------------------------------------------------------------------
(* Claims *)

MoveKeys == {"w", "s", "a", "d"}

\* the enemies whose alive flag goes from true to false in a step
Flipped == {i \in 1..Len(ENEMIES) :
               i <= Len(ENEMIES') /\ ENEMIES[i][3] /\ ~ENEMIES'[i][3]}

\* the living valid targets, in enumeration order
RECURSIVE ValidFrom(_)
ValidFrom(i) ==
    IF i > Len(ENEMIES) THEN <<>>
    ELSE IF ENEMIES[i][3] /\ ValidTarget(ENEMIES[i])
         THEN <<i>> \o ValidFrom(i + 1)
         ELSE ValidFrom(i + 1)

\* C1: a translation is committed only into a cell that is inside the grid and
\* is not a Wall, LowerWall or Pillar, so the player's cell is always inside
\* the grid and never a Wall, LowerWall or Pillar cell.
C1_PlayerCellPassable ==
    /\ 0 <= Trunc(player_y, UNIT) /\ Trunc(player_y, UNIT) < Len(MAP)
    /\ 0 <= Trunc(player_x, UNIT) /\ Trunc(player_x, UNIT) < Len(MAP[1])
    /\ PlayerTile \notin {"#", "L", "P"}

\* C2: ammo is never negative, and a shoot intent with ammo = 0 changes
\* nothing: ammo, score, the enemies, the player's position and angle stay as
\* they are and no random number is drawn.
C2_NoAmmoNoOp ==
    /\ [](ammo >= 0)
    /\ [][(key' = " " /\ ammo = 0) =>
            /\ UNCHANGED <<ammo, score, ENEMIES, player_x, player_y,
                           player_angle, player_health>>
            /\ drawn' = <<>>]_vars

\* C2 witness: a shot was attempted with no ammo while a living valid target
\* stood in front of the player, and no number was drawn for it
C2_Witness ==
    /\ ammo = 0 /\ key = " " /\ drawn = <<>>
    /\ \E i \in 1..Len(ENEMIES) : ENEMIES[i][3] /\ ValidTarget(ENEMIES[i])

\* C3: the score never decreases; it changes only in a shoot step that flips
\* exactly one enemy from alive to dead, and then by 100 * (class + 1) of that
\* enemy; every other step leaves it unchanged.
C3_ScoreSteps ==
    [][IF key' = " " /\ Cardinality(Flipped) = 1
       THEN \A i \in Flipped : score' = score + 100 * (ENEMIES[i][4] + 1)
       ELSE score' = score]_vars

\* C3 witness: a Fast enemy was just shot and the score is 200
C3_Witness ==
    /\ key = " " /\ score = 200
    /\ \E i \in 1..Len(ENEMIES) : ENEMIES[i][4] = 1 /\ ~ENEMIES[i][3]

\* C4: the enemy list keeps its length, no step changes an enemy's position
\* or class, a dead enemy stays dead, and only a shoot step changes an alive flag.
C4_DeathMonotonic ==
    [][/\ Len(ENEMIES') = Len(ENEMIES)
       /\ \A i \in 1..Len(ENEMIES) :
            /\ ENEMIES'[i][1] = ENEMIES[i][1]
            /\ ENEMIES'[i][2] = ENEMIES[i][2]
            /\ ENEMIES'[i][4] = ENEMIES[i][4]
            /\ ENEMIES'[i][3] => ENEMIES[i][3]
            /\ ENEMIES'[i][3] # ENEMIES[i][3] => key' = " "]_vars

\* C4 witness: an enemy is dead and a later frame (not a shot) has run
C4_Witness ==
    /\ key \in {"w", "q"}
    /\ \E i \in 1..Len(ENEMIES) : ~ENEMIES[i][3]

\* C5: a shot kills at most one enemy; a number is drawn for the living valid
\* targets in enumeration order, up to and including the first whose draw
\* succeeds, which is the one killed; no later enemy is considered, and dead
\* or invalid enemies are never drawn for or killed.
C5_OneKillPerShot ==
    [][(key' = " " /\ ammo > 0) =>
         LET valid == ValidFrom(1) IN
         /\ Cardinality(Flipped) <= 1
         /\ Len(drawn') <= Len(valid)
         /\ drawn' = SubSeq(valid, 1, Len(drawn'))
         /\ \A i \in 1..Len(ENEMIES) :
                ENEMIES'[i][3] # ENEMIES[i][3] => i \in Flipped
         /\ Flipped = {} => drawn' = valid
         /\ \A i \in Flipped : drawn' # <<>> /\ drawn'[Len(drawn')] = i]_vars

\* C5 witness: the first target was missed, the second killed, and a third
\* living valid target was not considered
C5_Witness ==
    /\ key = " " /\ drawn = <<1, 2>>
    /\ ENEMIES[1][3] /\ ~ENEMIES[2][3]
    /\ ENEMIES[4][3] /\ ValidTarget(ENEMIES[4])

\* C6: a translation moves the player to the candidate position or not at
\* all and changes nothing else; a turn changes only the angle; a shot never
\* changes position or angle; health never changes.
C6_IntentFrames ==
    [][/\ player_health' = player_health
       /\ key' \in MoveKeys =>
            /\ \/ player_x' = new_x' /\ player_y' = new_y'
               \/ UNCHANGED <<player_x, player_y>>
            /\ UNCHANGED <<player_angle, ammo, score, ENEMIES>>
       /\ key' \in {"q", "e"} =>
            UNCHANGED <<player_x, player_y, ammo, score, ENEMIES>>
       /\ key' = " " =>
            UNCHANGED <<player_x, player_y, player_angle>>]_vars

\* C6 witness: a translation into a wall was rejected
C6_Witness ==
    /\ key \in MoveKeys
    /\ ~CanEnter(new_x, new_y)
    /\ player_x # new_x \/ player_y # new_y

\* the march with range d has left its loop
RayDone(st, d) == ~RayCond(st, d)

\* the march has sampled at least one cell
Sampled(st) == st.distance_to_wall > 0

\* the cell sampled last lies outside the grid
OutOfBounds(st) == ~InGrid(Grids[grid], st.map_x, st.map_y)

\* the tile of the cell sampled last
SampledTile(st) == Grids[grid][st.map_y + 1][st.map_x + 1]

\* C7 as stated: a result other than OutOfRange is the same, distance
\* included, under every larger maximum range, also for a ray that leaves the grid.
C7_Original ==
    (RayDone(ray, depth) /\ RayDone(ray2, depth2) /\ ray.hit_wall) => ray2 = ray

\* C7: if the march with range depth hits a cell inside the grid, the march
\* with the larger range depth2 yields the identical result; if it leaves the
\* grid, kind, orientation and boundary flag are identical and each march
\* reports its own maximum range as the distance.
C7_RangeMonotonic ==
    (RayDone(ray, depth) /\ RayDone(ray2, depth2) /\ ray.hit_wall) =>
        IF OutOfBounds(ray)
        THEN /\ ray.distance_to_wall = depth
             /\ ray2 = [ray EXCEPT !.distance_to_wall = depth2]
        ELSE ray2 = ray

\* C7 witness: both marches have ended on a ray that hits a lower wall inside
\* the grid under the smaller range
C7_Witness ==
    /\ RayDone(ray, depth) /\ RayDone(ray2, depth2)
    /\ ray.hit_wall /\ ray.hit_lower_wall /\ ~OutOfBounds(ray)
    /\ depth < depth2

\* C8 as stated: no cell is classified at a distance >= maxRange, so a hit
\* inside the grid has a distance below maxRange and no reported distance
\* exceeds maxRange.
C8_Original ==
    /\ ray.distance_to_wall <= depth
    /\ (ray.hit_wall /\ ~OutOfBounds(ray)) => ray.distance_to_wall < depth

\* C8: the march ends with OutOfRange (no kind set, no boundary) exactly when
\* the distance has reached maxRange without a hit; the range is tested before
\* the advance, so the last cell classified is sampled at a distance below
\* maxRange + stepSize: a hit inside the grid has a distance below
\* maxRange + stepSize, a ray that leaves the grid reports maxRange, and no
\* distance reaches maxRange + stepSize.
C8_RangeLimit ==
    /\ ray.distance_to_wall < depth + step_size
    /\ (ray.hit_wall /\ OutOfBounds(ray)) => ray.distance_to_wall = depth
    /\ (RayDone(ray, depth) /\ ~ray.hit_wall) => ray.distance_to_wall >= depth
    /\ ~ray.hit_wall => /\ ~ray.hit_lower_wall /\ ~ray.hit_pillar
                        /\ ~ray.hit_corner /\ ~ray.boundary

\* C8 witness: a wall inside the grid was hit by the sample taken at maxRange
C8_Witness ==
    /\ ray.hit_wall /\ ~OutOfBounds(ray)
    /\ ray.distance_to_wall >= depth

\* C9 as stated: the march stops exactly at the cells that are out of bounds
\* or Wall, LowerWall or Pillar, and never in a cell the player may walk into.
C9_Original ==
    Sampled(ray) =>
        /\ ray.hit_wall <=> (OutOfBounds(ray) \/ SampledTile(ray) \in {"#", "L", "P"})
        /\ ray.hit_wall => ~CellOpen(Grids[grid], ray.map_x, ray.map_y)

\* C9: the march stops at the first sampled cell that is out of bounds or is a
\* Wall, LowerWall, Pillar or CornerDecoration and passes through every other
\* cell; it never passes through a cell the player is not allowed to walk into.
C9_StopsAtSolidCells ==
    Sampled(ray) =>
        /\ ray.hit_wall <=>
              (OutOfBounds(ray) \/ SampledTile(ray) \in {"#", "L", "P", "C"})
        /\ ~ray.hit_wall => CellOpen(Grids[grid], ray.map_x, ray.map_y)

\* C9 witness: a march has stopped on a pillar
C9_Witness ==
    /\ Sampled(ray) /\ ray.hit_wall /\ ~OutOfBounds(ray)
    /\ SampledTile(ray) = "P"

\* the scenario of C10: the 3x3 grid, origin (1.5, 1.5), angle 0, maxRange 5
C10_Scenario ==
    /\ grid = 2
    /\ player_x = 15000 /\ player_y = 15000
    /\ ray_angle = 0
    /\ depth = 5 * UNIT

\* C10: in the scenario the march ends after 25 steps with a Wall hit on the
\* east cell (2, 1) at distance 0.5, orientation vertical, boundary set.
C10_EastWallHit ==
    (C10_Scenario /\ RayDone(ray, depth)) =>
        /\ ray.hit_wall
        /\ ray.map_x = 2 /\ ray.map_y = 1
        /\ ray.distance_to_wall = 25 * step_size
        /\ ray.distance_to_wall = UNIT \div 2
        /\ ray.wall_orientation = 0
        /\ ray.boundary
        /\ ~ray.hit_lower_wall /\ ~ray.hit_pillar /\ ~ray.hit_corner

\* C10 witness: the scenario's march has ended
C10_Witness == C10_Scenario /\ RayDone(ray, depth) /\ ray.hit_wall

\* the column has been projected: its wall span and its sprite are known
Projected == pc \in {"rows", "done"}

\* floor - ceiling of a tile hit at corrected distance cd
Span(vh, cd, lower) == Floor(vh, cd, lower) - Ceiling(vh, cd, lower)

\* C11 as stated: for every view height and every corrected distance below one
\* cell, the clamped span of a lower wall is strictly smaller than the span of
\* a full wall at the same distance
C11_Original ==
    (Projected /\ corrected_distance < UNIT) =>
        Span(view_height, corrected_distance, TRUE)
            < Span(view_height, corrected_distance, FALSE)

\* C11: at every corrected distance the clamped span of a lower wall is no
\* larger than the span of a full wall at the same distance, and below one
\* cell both spans are the whole view, rows 0 .. view_height - 1
C11_LowerNotTaller ==
    Projected =>
        /\ Span(view_height, corrected_distance, TRUE)
               <= Span(view_height, corrected_distance, FALSE)
        /\ corrected_distance < UNIT =>
               \A lower \in BOOLEAN :
                   /\ Ceiling(view_height, corrected_distance, lower) = 0
                   /\ Floor(view_height, corrected_distance, lower) = view_height - 1

\* a column whose ray hit a lower wall less than one cell away
C11_Witness ==
    /\ Projected
    /\ ray.hit_lower_wall
    /\ corrected_distance < UNIT
    /\ ceiling = 0 /\ floor = view_height - 1

\* the player stands exactly on the enemy's coordinates: distance() is 0.0
OnEnemy(enemy) == player_x = enemy[1] * UNIT /\ player_y = enemy[2] * UNIT

\* the whole-degree rays of a frame: ray_angle - player_angle lies in
\* [-FOV / 2, FOV / 2)
FrameOffsets == (0 - FOV \div 2) .. (FOV \div 2 - 1)

\* the enemy lies within the sprite tolerance of one of the frame's rays
InSight(enemy) ==
    \E o \in FrameOffsets :
        WithinAngle(enemy[1] * UNIT - player_x, enemy[2] * UNIT - player_y,
                    player_angle + o, 3)

Candidates ==
    {i \in 1..Len(ENEMIES) : Selects(ENEMIES[i], ray_angle, corrected_distance, inf)}

EnemyDist(i) == distance(player_x, player_y, ENEMIES[i][1] * UNIT, ENEMIES[i][2] * UNIT)

\* the row drawn by the latest iteration of the row loop
LastRow == y - 1

InEnemySpan(r) ==
    /\ r >= EnemyCeiling(view_height, enemy_distance)
    /\ r <= EnemyFloor(view_height, enemy_distance)

\* C13: the sprite of a column is the nearest living enemy within the
\* tolerance of the ray and in front of the wall; when there is one, every row
\* inside the enemy's projected span shows the enemy glyph and the rows of the
\* wall span outside it show the wall glyph
C13_SpriteDepthTest ==
    Projected =>
        /\ enemy_hit <=> Candidates # {}
        /\ enemy_hit =>
               \E i \in Candidates :
                   /\ enemy_distance = EnemyDist(i)
                   /\ enemy_type = ENEMIES[i][4]
                   /\ \A j \in Candidates : EnemyDist(i) <= EnemyDist(j)
        /\ (enemy_hit /\ y > 0) =>
               /\ InEnemySpan(LastRow) => glyph = "enemy"
               /\ (LastRow >= ceiling /\ LastRow <= floor /\ ~InEnemySpan(LastRow))
                      => glyph \in WallGlyphs

\* C14: every row drawn shows a glyph of exactly one of the branches sky,
\* enemy, wall, floor, whatever the ray result and the sprite
C14_OneGlyphPerRow ==
    (Projected /\ y > 0) => glyph \in {"sky", "enemy", "floor"} \cup WallGlyphs

\* the minimap direction of the facing-angle quadrant: map x grows to the
\* right of the minimap and map y grows downwards
Quadrant(angle) ==
    IF 45 <= angle /\ angle < 135 THEN "down"
    ELSE IF 135 <= angle /\ angle < 225 THEN "left"
    ELSE IF 225 <= angle /\ angle < 315 THEN "up"
    ELSE "right"

\* a forward step at this angle displaces the player along direction dir
\* at least as much as along the other axis
Displaces(angle, dir) ==
    CASE dir = "right" -> StepX(angle) > 0 /\ StepX(angle) >= Abs(StepY(angle))
      [] dir = "left"  -> StepX(angle) < 0 /\ -StepX(angle) >= Abs(StepY(angle))
      [] dir = "down"  -> StepY(angle) > 0 /\ StepY(angle) >= Abs(StepX(angle))
      [] dir = "up"    -> StepY(angle) < 0 /\ -StepY(angle) >= Abs(StepX(angle))

\* C15: in every state the arrow drawn on the player's minimap cell is the
\* one of the facing-angle quadrant, right for [315, 360) and [0, 45), down
\* for [45, 135), left for [135, 225), up for [225, 315), and a forward step
\* displaces the player in the direction the arrow points
C15_ArrowAgreesWithMovement ==
    /\ DirChar(player_angle) = Quadrant(player_angle)
    /\ Displaces(player_angle, DirChar(player_angle))

\* the ammo the game starts with
InitialAmmo == 50

\* the enemies whose alive flag is false
Dead == {i \in 1..Len(ENEMIES) : ~ENEMIES[i][3]}

\* the sum of 100 * (class + 1) over the dead enemies among the first n
RECURSIVE Bounty(_)
Bounty(n) ==
    IF n = 0
    THEN 0
    ELSE Bounty(n - 1) + (IF n \in Dead THEN 100 * (ENEMIES[n][4] + 1) ELSE 0)

\* the sum of 100 * (class + 1) over the first n enemies
RECURSIVE TotalBounty(_)
TotalBounty(n) ==
    IF n = 0 THEN 0 ELSE TotalBounty(n - 1) + 100 * (ENEMIES[n][4] + 1)

\* C16: in every state the score is the sum of 100 * (class + 1) over the dead
\* enemies, it is at most the sum over all enemies, which is 1100, there are
\* no more dead enemies than shots fired, and the initial ammo is the current
\* ammo plus the shots fired
C16_ScoreLedger ==
    /\ score = Bounty(Len(ENEMIES))
    /\ score <= TotalBounty(Len(ENEMIES))
    /\ TotalBounty(Len(ENEMIES)) = 1100
    /\ Cardinality(Dead) <= shots
    /\ InitialAmmo = ammo + shots

\* shots have been fired, some of them missed, and enemies of two classes are dead
C16_Witness ==
    /\ shots > Cardinality(Dead)
    /\ \E i, j \in Dead : ENEMIES[i][4] # ENEMIES[j][4]
    /\ score > 0

\* the angle and range tests of the shoot branch, which read no grid
Passes(enemy) ==
    /\ WithinAngle(enemy[1] * UNIT - player_x, enemy[2] * UNIT - player_y,
                   player_angle, FOV \div 2)
    /\ distance(player_x, player_y, enemy[1] * UNIT, enemy[2] * UNIT) < DEPTH * 1000

\* the living enemies that pass the tests, from index i on, in list order
RECURSIVE PassingFrom(_)
PassingFrom(i) ==
    IF i > Len(ENEMIES)
    THEN <<>>
    ELSE IF ENEMIES[i][3] /\ Passes(ENEMIES[i])
         THEN <<i>> \o PassingFrom(i + 1)
         ELSE PassingFrom(i + 1)

\* C17: on every grid a shot is resolved from the position, the angle, the
\* enemy list, the ammo and the draws alone: a round is spent, a number is
\* drawn for the living enemies that pass the angle and range tests, in list
\* order and whatever tiles lie in between, up to the first kill, and only the
\* last enemy drawn for can die, adding its bounty to the score
C17_CombatIgnoresGrid ==
    [][(key' = " " /\ ammo > 0) =>
          /\ ammo' = ammo - 1
          /\ Len(drawn') <= Len(PassingFrom(1))
          /\ drawn' = SubSeq(PassingFrom(1), 1, Len(drawn'))
          /\ \/ /\ Flipped = {}
                /\ drawn' = PassingFrom(1)
                /\ score' = score
             \/ /\ drawn' # <<>>
                /\ Flipped = {drawn'[Len(drawn')]}
                /\ score' = score + 100 * (ENEMIES[drawn'[Len(drawn')]][4] + 1)
          /\ \A i \in 1..Len(ENEMIES) :
                 ENEMIES'[i] = [ENEMIES[i] EXCEPT ![3] = ENEMIES[i][3] /\ i \notin Flipped]
      ]_vars

\* on MAP the latest shot has killed an enemy with a Wall cell on the segment
\* between the player and it
C17_Witness ==
    /\ grid = 1
    /\ key = " "
    /\ drawn # <<>>
    /\ ~ENEMIES[drawn[Len(drawn)]][3]
    /\ WallBetween(ENEMIES[drawn[Len(drawn)]])

====
